---- MODULE Spec2Model ----
(***************************************************************************)
(* Model of json_to_csv_converter.py: JSONToCSVConverter.flatten_dict,     *)
(* convert_with_custom_flattening, convert_with_pandas and                 *)
(* convert_with_array_explosion.                                           *)
(*                                                                         *)
(* A Text is a sequence of one-character strings, so that key building,    *)
(* str(), ', '.join, json.dumps and sorted() are computed character by     *)
(* character.  A JSON value is a record with the same five fields for      *)
(* every kind (t: kind, n: number or truth value, s: text, a: elements of  *)
(* an array, o: the (key, value) pairs of an object in insertion order).   *)
(* A Python dict is the sequence of its pairs in insertion order, with     *)
(* unique keys.                                                            *)
(***************************************************************************)
EXTENDS Integers, Sequences, FiniteSets, TLC

\* flatten_strategy: self.flatten_strategy
\* json_file:        the value json.load reads from the input file
\* call:             the conversion last called and its array_field
\* data:             the local data as the last call left it
\* flatten_args:     the records the last call handed to flatten_dict, in order
\* rows:             flattened_data / exploded_data as the last call left it
\* raised:           the exception the last call ended with, "" for none
\* csv_file:         the output file of the last call
VARIABLES flatten_strategy, json_file, call, data, flatten_args, rows, raised,
          csv_file

vars == <<flatten_strategy, json_file, call, data, flatten_args, rows, raised,
          csv_file>>

\* ------------------------------------------------------------ bounds
\* Longest array generated inside an input record.
MaxLen == 2
\* Longest top-level array of records generated.
MaxRecords == 2

\* ------------------------------------------------------------ values
Value(t, n, s, a, o) == [t |-> t, n |-> n, s |-> s, a |-> a, o |-> o]
Null == Value("null", 0, <<>>, <<>>, <<>>)
Bool(b) == Value("bool", IF b THEN 1 ELSE 0, <<>>, <<>>, <<>>)
Num(n) == Value("int", n, <<>>, <<>>, <<>>)
Str(s) == Value("str", 0, s, <<>>, <<>>)
Arr(a) == Value("list", 0, <<>>, a, <<>>)
Obj(o) == Value("dict", 0, <<>>, <<>>, o)
Pair(k, v) == [k |-> k, v |-> v]

\* isinstance(v, dict), isinstance(v, list)
is_dict(v) == v.t = "dict"
is_list(v) == v.t = "list"

\* ------------------------------------------------------------ text
Digits == <<"0", "1", "2", "3", "4", "5", "6", "7", "8", "9">>

\* The code point of each character the model's texts are made of.
CodePoint(c) ==
    CASE c = " " -> 32 [] c = "\"" -> 34 [] c = "," -> 44 [] c = "." -> 46
      [] c = "0" -> 48 [] c = "1" -> 49 [] c = "2" -> 50 [] c = "3" -> 51
      [] c = "4" -> 52 [] c = "5" -> 53 [] c = "6" -> 54 [] c = "7" -> 55
      [] c = "8" -> 56 [] c = "9" -> 57 [] c = ":" -> 58
      [] c = "F" -> 70 [] c = "N" -> 78 [] c = "T" -> 84
      [] c = "[" -> 91 [] c = "]" -> 93 [] c = "_" -> 95
      [] c = "a" -> 97 [] c = "b" -> 98 [] c = "c" -> 99 [] c = "e" -> 101
      [] c = "f" -> 102 [] c = "l" -> 108 [] c = "n" -> 110 [] c = "o" -> 111
      [] c = "r" -> 114 [] c = "s" -> 115 [] c = "t" -> 116 [] c = "u" -> 117
      [] c = "v" -> 118 [] c = "x" -> 120 [] c = "{" -> 123 [] c = "}" -> 125

\* Python's str < str: code point by code point, a proper prefix first.
RECURSIVE str_lt(_, _)
str_lt(s, t) ==
    IF t = <<>> THEN FALSE
    ELSE IF s = <<>> THEN TRUE
    ELSE IF s[1] # t[1] THEN CodePoint(s[1]) < CodePoint(t[1])
    ELSE str_lt(Tail(s), Tail(t))

\* str(n) of a non-negative int.
RECURSIVE str_int(_)
str_int(n) ==
    IF n < 10 THEN <<Digits[n + 1]>>
    ELSE str_int(n \div 10) \o <<Digits[(n % 10) + 1]>>

\* sep.join(parts)
RECURSIVE join(_, _)
join(sep, parts) ==
    IF parts = <<>> THEN <<>>
    ELSE IF Len(parts) = 1 THEN parts[1]
    ELSE parts[1] \o sep \o join(sep, Tail(parts))

\* x in s for two str: s has x as a contiguous part.
is_substring(x, s) ==
    \E i \in 1..(Len(s) - Len(x) + 1) : SubSeq(s, i, i + Len(x) - 1) = x

\* json.dumps(v) with the default separators; the model's texts hold no
\* character json.dumps escapes.
RECURSIVE json_dumps(_)
json_dumps(v) ==
    CASE v.t = "null" -> <<"n", "u", "l", "l">>
      [] v.t = "bool" -> IF v.n = 1 THEN <<"t", "r", "u", "e">>
                         ELSE <<"f", "a", "l", "s", "e">>
      [] v.t = "int" -> str_int(v.n)
      [] v.t = "str" -> <<"\"">> \o v.s \o <<"\"">>
      [] v.t = "list" ->
           <<"[">> \o join(<<",", " ">>,
                           [i \in 1..Len(v.a) |-> json_dumps(v.a[i])]) \o <<"]">>
      [] v.t = "dict" ->
           <<"{">> \o join(<<",", " ">>,
                           [i \in 1..Len(v.o) |->
                               <<"\"">> \o v.o[i].k \o <<"\"", ":", " ">>
                                 \o json_dumps(v.o[i].v)]) \o <<"}">>

\* str(v) of a scalar, as map(str, value) applies it to the items of a list.
py_str(v) ==
    CASE v.t = "null" -> <<"N", "o", "n", "e">>
      [] v.t = "bool" -> IF v.n = 1 THEN <<"T", "r", "u", "e">>
                         ELSE <<"F", "a", "l", "s", "e">>
      [] v.t = "int" -> str_int(v.n)
      [] v.t = "str" -> v.s

\* ------------------------------------------------------------ dict
RECURSIVE concat(_)
concat(seqs) == IF seqs = <<>> THEN <<>> ELSE seqs[1] \o concat(Tail(seqs))

dict_keys(d) == {d[i].k : i \in 1..Len(d)}
dict_has(d, k) == \E i \in 1..Len(d) : d[i].k = k
dict_get(d, k) == d[CHOOSE i \in 1..Len(d) : d[i].k = k].v

\* d[k] = v: the value replaced where k stands, or the pair added last.
dict_set(d, k, v) ==
    IF dict_has(d, k)
    THEN [i \in 1..Len(d) |-> IF d[i].k = k THEN Pair(k, v) ELSE d[i]]
    ELSE Append(d, Pair(k, v))

\* del d[k]
dict_del(d, k) == SelectSeq(d, LAMBDA p : p.k # k)

\* d.update(e), and dict(items) as the update of the empty dict.
RECURSIVE dict_update(_, _)
dict_update(d, e) ==
    IF e = <<>> THEN d
    ELSE dict_update(dict_set(d, e[1].k, e[1].v), Tail(e))

dict_of(items) == dict_update(<<>>, items)

\* The mapping a dict stands for: Python's dict == dict ignores the order.
AsMap(d) == [k \in dict_keys(d) |-> dict_get(d, k)]

\* ------------------------------------------------------------ flatten_dict
Strategies == {"dot_notation", "separate_columns", "json_string"}

\* new_key = f"{parent_key}{separator}{key}" if parent_key else key
new_key_of(parent_key, key) ==
    IF parent_key # <<>> THEN parent_key \o <<".">> \o key ELSE key

\* f"{new_key}_{i}" for the i-th item, counted from 0
indexed_key(new_key, i) == new_key \o <<"_">> \o str_int(i)

\* isinstance(item, (str, int, float, bool))
is_simple_item(item) == item.t \in {"str", "int", "bool"}

\* The test with an empty list taken for a complex one.
is_simple_list_nonempty(value) ==
    value.a # <<>> /\ \A i \in 1..Len(value.a) : is_simple_item(value.a[i])

\* all(isinstance(item, (str, int, float, bool)) for item in value)
is_simple_list(value) == \A i \in 1..Len(value.a) : is_simple_item(value.a[i])

\* ', '.join(map(str, value))
joined_text(value) ==
    Str(join(<<",", " ">>, [i \in 1..Len(value.a) |-> py_str(value.a[i])]))

\* flatten_dict(data, parent_key): dict(items), where items_for is what one
\* turn of the loop over data.items() adds to items.
RECURSIVE flatten_dict(_, _, _), items_for(_, _, _, _)
items_for(strategy, parent_key, key, value) ==
    LET new_key == new_key_of(parent_key, key) IN
    IF is_dict(value) THEN flatten_dict(strategy, value, new_key)
    ELSE IF is_list(value) THEN
        IF strategy = "dot_notation" THEN
            IF is_simple_list(value)
            THEN <<Pair(new_key, joined_text(value))>>
            ELSE <<Pair(new_key, Str(json_dumps(value)))>>
        ELSE IF strategy = "separate_columns" THEN
            concat([i \in 1..Len(value.a) |->
                IF is_dict(value.a[i])
                THEN flatten_dict(strategy, value.a[i], indexed_key(new_key, i - 1))
                ELSE <<Pair(indexed_key(new_key, i - 1), value.a[i])>>])
        ELSE <<Pair(new_key, Str(json_dumps(value)))>>
    ELSE <<Pair(new_key, value)>>

flatten_dict(strategy, d, parent_key) ==
    dict_of(concat([i \in 1..Len(d.o) |->
                      items_for(strategy, parent_key, d.o[i].k, d.o[i].v)]))

\* ------------------------------------------------------------ output
\* sorted(list(fieldnames)) of a set of keys.
RECURSIVE sorted(_)
sorted(S) ==
    IF S = {} THEN <<>>
    ELSE LET m == CHOOSE x \in S : \A y \in S \ {x} : str_lt(x, y)
         IN <<m>> \o sorted(S \ {m})

\* fieldnames without sorted(): the keys in the order the records bring them.
fieldnames_unsorted(records) ==
    LET pairs == dict_of(concat(records))
    IN [i \in 1..Len(pairs) |-> pairs[i].k]

\* fieldnames: the set updated with every record's keys, then sorted.
fieldnames_of(records) ==
    sorted(UNION {dict_keys(records[i]) : i \in 1..Len(records)})

\* The row csv.DictWriter writes for rowdict: rowdict.get(key, restval) for
\* each key of fieldnames, restval being ''.
row_of(fieldnames, rowdict) ==
    [j \in 1..Len(fieldnames) |->
        IF dict_has(rowdict, fieldnames[j]) THEN dict_get(rowdict, fieldnames[j])
        ELSE Str(<<>>)]

NoFile == [state |-> "absent", fieldnames |-> <<>>, lines |-> <<>>]

\* open(csv_file, 'w'), writeheader(), writerows(records)
written_file(records) ==
    LET fieldnames == fieldnames_of(records) IN
    [state |-> "written", fieldnames |-> fieldnames,
     lines |-> [i \in 1..Len(records) |-> row_of(fieldnames, records[i])]]

InvalidShape == "ValueError: JSON must contain an object or array of objects"
NoData == "ValueError: No data to convert"

\* How a call ends: the locals it leaves, the exception, the file.
Outcome(d, args, rs, exc, file) ==
    [data |-> d, flatten_args |-> args, rows |-> rs, raised |-> exc,
     csv_file |-> file]

\* ------------------------------------------------------------ plain path
value_key == <<"v", "a", "l", "u", "e">>

\* One turn of the loop over data: the row appended to flattened_data.
flattened_record(strategy, record) ==
    IF is_dict(record) THEN flatten_dict(strategy, record, <<>>)
    ELSE <<Pair(value_key, record)>>

custom_flattening(strategy, loaded) ==
    IF ~is_dict(loaded) /\ ~is_list(loaded)
    THEN Outcome(loaded, <<>>, <<>>, InvalidShape, NoFile)
    ELSE
      LET d == IF is_dict(loaded) THEN Arr(<<loaded>>) ELSE loaded
          flattened_data ==
              [i \in 1..Len(d.a) |-> flattened_record(strategy, d.a[i])]
          args == SelectSeq(d.a, is_dict)
      IN IF flattened_data = <<>>
         THEN Outcome(d, args, flattened_data, NoData, NoFile)
         ELSE Outcome(d, args, flattened_data, "", written_file(flattened_data))

\* ------------------------------------------------------------ explosion
TypeError == "TypeError"
AttributeError == "AttributeError"

\* array_field in record, for the record kinds `in` is defined on.
contains(record, array_field) ==
    CASE record.t = "dict" -> dict_has(record.o, array_field)
      [] record.t = "list" ->
           \E i \in 1..Len(record.a) : record.a[i] = Str(array_field)
      [] record.t = "str" -> is_substring(array_field, record.s)

\* The test without isinstance(record[array_field], list).
field_test_no_list_check(record, array_field) ==
    IF array_field = <<>> THEN "plain"
    ELSE IF record.t \in {"null", "bool", "int"} THEN TypeError
    ELSE IF ~contains(record, array_field) THEN "plain"
    ELSE IF ~is_dict(record) THEN TypeError
    ELSE "explode"

\* array_field and array_field in record
\*   and isinstance(record[array_field], list)
\* "explode" when it holds, "plain" when it does not, TypeError when `in` or
\* the subscript raises (a record that is no dict).
field_test(record, array_field) ==
    IF array_field = <<>> THEN "plain"
    ELSE IF record.t \in {"null", "bool", "int"} THEN TypeError
    ELSE IF ~contains(record, array_field) THEN "plain"
    ELSE IF ~is_dict(record) THEN TypeError
    ELSE IF is_list(dict_get(record.o, array_field)) THEN "explode"
    ELSE "plain"

\* The turn without new_record[array_field] = item for a simple value.
explode_item_no_reinsert(record, array_field, item) ==
    LET removed == dict_del(record.o, array_field)
        merged == IF is_dict(item) THEN dict_update(removed, item.o) ELSE removed
    IN [record |-> record, new_record |-> Obj(merged)]

\* The turn with new_record = record in place of record.copy(): del and
\* update reach record itself.
explode_item_alias(record, array_field, item) ==
    LET removed == dict_del(record.o, array_field)
        merged == IF is_dict(item) THEN dict_update(removed, item.o)
                  ELSE dict_set(removed, array_field, item)
    IN [record |-> Obj(merged), new_record |-> Obj(merged)]

\* One turn of the loop over record[array_field]: new_record as handed to
\* flatten_dict, and record as the turn leaves it (copy() makes new_record a
\* dict of its own, so del and update never reach record).
explode_item(record, array_field, item) ==
    LET copied == record.o
        removed == dict_del(copied, array_field)
        merged == IF is_dict(item) THEN dict_update(removed, item.o)
                  ELSE dict_set(removed, array_field, item)
    IN [record |-> record, new_record |-> Obj(merged)]

\* The loop over the items of record[array_field]; the list iterated is the
\* one read when the loop starts.
RECURSIVE explode_items(_, _, _, _)
explode_items(strategy, record, array_field, items) ==
    IF items = <<>> THEN [record |-> record, args |-> <<>>, rows |-> <<>>]
    ELSE
      LET turn == explode_item(record, array_field, items[1])
          rest == explode_items(strategy, turn.record, array_field, Tail(items))
      IN [record |-> rest.record,
          args |-> <<turn.new_record>> \o rest.args,
          rows |-> <<flatten_dict(strategy, turn.new_record, <<>>)>> \o rest.rows]

\* One turn of the loop over data.
explode_record(strategy, record, array_field) ==
    LET test == field_test(record, array_field) IN
    IF test = TypeError
    THEN [record |-> record, args |-> <<>>, rows |-> <<>>, raised |-> TypeError]
    ELSE IF test = "explode"
    THEN LET done == explode_items(strategy, record, array_field,
                                   dict_get(record.o, array_field).a)
         IN [record |-> done.record, args |-> done.args, rows |-> done.rows,
             raised |-> ""]
    ELSE IF is_dict(record)
    THEN [record |-> record, args |-> <<record>>,
          rows |-> <<flatten_dict(strategy, record, <<>>)>>, raised |-> ""]
    ELSE [record |-> record, args |-> <<record>>, rows |-> <<>>,
          raised |-> AttributeError]

\* The loop over data, ended by the first exception.
RECURSIVE explode_records(_, _, _)
explode_records(strategy, records, array_field) ==
    IF records = <<>>
    THEN [records |-> <<>>, args |-> <<>>, rows |-> <<>>, raised |-> ""]
    ELSE
      LET first == explode_record(strategy, records[1], array_field) IN
      IF first.raised # ""
      THEN [records |-> <<first.record>> \o Tail(records), args |-> first.args,
            rows |-> first.rows, raised |-> first.raised]
      ELSE LET rest == explode_records(strategy, Tail(records), array_field)
           IN [records |-> <<first.record>> \o rest.records,
               args |-> first.args \o rest.args,
               rows |-> first.rows \o rest.rows,
               raised |-> rest.raised]

\* for record in data: the records a str yields are its characters.
iterated(d) ==
    CASE d.t = "list" -> d.a
      [] d.t = "str" -> [i \in 1..Len(d.s) |-> Str(<<d.s[i]>>)]

array_explosion(strategy, loaded, array_field) ==
    LET d == IF is_dict(loaded) THEN Arr(<<loaded>>) ELSE loaded IN
    IF d.t \in {"null", "bool", "int"}
    THEN Outcome(d, <<>>, <<>>, TypeError, NoFile)
    ELSE
      LET loop == explode_records(strategy, iterated(d), array_field)
          left == IF is_list(d) THEN Arr(loop.records) ELSE d
      IN IF loop.raised # ""
         THEN Outcome(left, loop.args, loop.rows, loop.raised, NoFile)
         ELSE Outcome(left, loop.args, loop.rows, "", written_file(loop.rows))

\* ------------------------------------------------------------ pandas path
\* A cell pandas holds as a float: an int of a column that has a hole.
Float(n) == Value("float", n, <<>>, <<>>, <<>>)

\* pd.json_normalize of one record: the pairs of the nested dicts, keys
\* joined with '.', arrays left as they are.
RECURSIVE normalise_items(_, _)
normalise_items(d, key_string) ==
    concat([i \in 1..Len(d.o) |->
        LET new_key == new_key_of(key_string, d.o[i].k) IN
        IF is_dict(d.o[i].v) THEN normalise_items(d.o[i].v, new_key)
        ELSE <<Pair(new_key, d.o[i].v)>>])

\* The row json_normalize makes of an element of data: the values of the
\* record that are no dict first, then the flattened nested dicts; the empty
\* row for an element that is no dict.
normalised_record(record) ==
    IF ~is_dict(record) THEN <<>>
    ELSE dict_update(SelectSeq(record.o, LAMBDA p : ~is_dict(p.v)),
                     normalise_items(Obj(SelectSeq(record.o, LAMBDA p : is_dict(p.v))),
                                     <<>>))

\* df.columns: the keys of the rows in the order they first appear.
frame_columns(records) ==
    LET pairs == dict_of(concat(records))
    IN [j \in 1..Len(pairs) |-> pairs[j].k]

\* The cell of row i under column: '' for a hole (a key the row lacks, or a
\* null), the json.dumps text for a list or a dict (lines 113-116), a float
\* for an int of a column that holds ints and holes only, else the value.
frame_cell(records, column, i) ==
    LET hole(r) == ~dict_has(r, column) \/ dict_get(r, column) = Null
        float_column ==
            /\ \E k \in 1..Len(records) : hole(records[k])
            /\ \A k \in 1..Len(records) :
                   hole(records[k]) \/ dict_get(records[k], column).t = "int"
    IN IF hole(records[i]) THEN Str(<<>>)
       ELSE LET x == dict_get(records[i], column) IN
            IF is_dict(x) \/ is_list(x) THEN Str(json_dumps(x))
            ELSE IF float_column THEN Float(x.n)
            ELSE x

\* df.to_csv(csv_file, index=False)
frame_file(records) ==
    LET columns == frame_columns(records) IN
    [state |-> "written", fieldnames |-> columns,
     lines |-> [i \in 1..Len(records) |->
                  [j \in 1..Len(columns) |-> frame_cell(records, columns[j], i)]]]

\* What json_normalize makes of an element before the frame is built: the
\* flattened record of a dict, the list of what it makes of each item of a
\* list, the empty record of anything else.
RECURSIVE simple_normalise(_)
simple_normalise(ds) ==
    IF is_dict(ds) THEN Obj(normalised_record(ds))
    ELSE IF is_list(ds) THEN Arr([i \in 1..Len(ds.a) |-> simple_normalise(ds.a[i])])
    ELSE Obj(<<>>)

\* The frame DataFrame builds when the first element is a list: every
\* element is read as a row of cells by position (a list gives its items, a
\* dict its keys), short rows are filled with holes, and the columns are the
\* ints 0, 1, ..., written by to_csv as their digits.
positional_row(element) ==
    IF is_list(element) THEN element.a
    ELSE [j \in 1..Len(element.o) |-> Str(element.o[j].k)]

positional_width(elements) ==
    LET lens == {Len(positional_row(elements[i])) : i \in 1..Len(elements)}
    IN CHOOSE w \in lens : \A v \in lens : v <= w

positional_file(elements) ==
    LET width == positional_width(elements) IN
    [state |-> "written",
     fieldnames |-> [j \in 1..width |-> str_int(j - 1)],
     lines |-> [i \in 1..Len(elements) |->
                  [j \in 1..width |->
                      LET row == positional_row(elements[i]) IN
                      IF j > Len(row) THEN Str(<<>>)
                      ELSE IF is_dict(row[j]) \/ is_list(row[j])
                      THEN Str(json_dumps(row[j]))
                      ELSE row[j]]]]

\* convert_with_pandas, the frame as pandas 2 builds it.  With a list first
\* in data the frame is positional and its columns are ints, so the file is
\* written and ', '.join(df.columns) at line 120 raises TypeError; with a
\* dict or a scalar first and a list later DataFrame raises AttributeError
\* reading the keys of the rows, before any file is written.
with_pandas(loaded) ==
    IF ~is_dict(loaded) /\ ~is_list(loaded)
    THEN Outcome(loaded, <<>>, <<>>, InvalidShape, NoFile)
    ELSE
      LET elements == IF is_dict(loaded) THEN <<loaded>> ELSE loaded.a
          normalised == [i \in 1..Len(elements) |-> simple_normalise(elements[i])]
          records == [i \in 1..Len(elements) |-> normalised[i].o]
      IN IF elements # <<>> /\ is_list(normalised[1])
         THEN Outcome(loaded, <<>>, <<>>,
                      IF positional_width(normalised) > 0 THEN TypeError ELSE "",
                      positional_file(normalised))
         ELSE IF \E i \in 1..Len(elements) : is_list(normalised[i])
         THEN Outcome(loaded, <<>>, <<>>, AttributeError, NoFile)
         ELSE Outcome(loaded, <<>>, <<>>, "", frame_file(records))

\* ------------------------------------------------------------ inputs
SeqsUpTo(S, n) == UNION {[1..k -> S] : k \in 0..n}

key_a == <<"a">>
key_b == <<"b">>
key_c == <<"c">>
key_a_dot_b == <<"a", ".", "b">>
key_a_0 == <<"a", "_", "0">>

Scalars == {Null, Bool(TRUE), Num(1), Str(<<"x">>)}

\* What the arrays inside a record hold: scalars, an array, objects (one with
\* the key the records use for their array, one without).
Items ==
    {Null, Bool(TRUE), Num(1), Str(<<"x">>), Arr(<<Num(1)>>),
     Obj(<<Pair(key_b, Num(2))>>),
     Obj(<<Pair(key_a, Num(3)), Pair(key_c, Num(4))>>)}

InnerObjects ==
    {Obj(<<>>)} \cup
    {Obj(<<Pair(key_b, v)>>) : v \in {Num(2), Obj(<<>>), Arr(<<>>)}}

\* The value under key "a" of a record.
FieldValues ==
    Scalars \cup {Arr(a) : a \in SeqsUpTo(Items, MaxLen)} \cup InnerObjects

\* The other entry of a record: a key that a flattened key of "a" may equal,
\* or a key an item of the array has too.
Siblings == {Pair(k, Num(7)) : k \in {key_a_dot_b, key_a_0, key_b}}

\* A record: "a" alone, "a" before or after a sibling, a sibling alone, {}.
Records ==
    {Obj(<<>>)} \cup {Obj(<<p>>) : p \in Siblings} \cup
    {Obj(<<Pair(key_a, v)>>) : v \in FieldValues} \cup
    {Obj(<<Pair(key_a, v), p>>) : v \in FieldValues, p \in Siblings} \cup
    {Obj(<<p, Pair(key_a, v)>>) : v \in FieldValues, p \in Siblings}

\* The elements of a top-level array: records and values that are no record.
Elements ==
    {Num(1), Null, Str(key_a), Arr(<<Str(key_a)>>),
     Obj(<<Pair(key_a, Num(1))>>),
     Obj(<<Pair(key_b, Num(2)), Pair(key_a, Str(<<"x">>))>>),
     Obj(<<Pair(value_key, Num(5))>>),
     Obj(<<Pair(key_a, Arr(<<>>))>>),
     Obj(<<Pair(key_a, Arr(<<Num(1), Obj(<<Pair(key_c, Num(4))>>)>>)),
           Pair(key_b, Num(7))>>)}

\* What json.load may return.
Inputs ==
    Records \cup {Arr(a) : a \in SeqsUpTo(Elements, MaxRecords)} \cup
    {Num(1), Null, Str(<<"x">>), Str(<<>>)}

\* array_field as the caller gives it: <<>> for None or '' (both false).
ArrayFields == {<<>>, key_a}

\* ------------------------------------------------------------ state machine
Init ==
    /\ flatten_strategy \in Strategies
    /\ json_file \in Inputs
    /\ call = [method |-> "none", array_field |-> <<>>]
    /\ data = Null
    /\ flatten_args = <<>>
    /\ rows = <<>>
    /\ raised = ""
    /\ csv_file = NoFile

Ends(out) ==
    /\ data' = out.data
    /\ flatten_args' = out.flatten_args
    /\ rows' = out.rows
    /\ raised' = out.raised
    /\ csv_file' = out.csv_file

convert_with_custom_flattening ==
    /\ call' = [method |-> "custom", array_field |-> <<>>]
    /\ Ends(custom_flattening(flatten_strategy, json_file))
    /\ UNCHANGED <<flatten_strategy, json_file>>

convert_with_pandas ==
    /\ call' = [method |-> "pandas", array_field |-> <<>>]
    /\ Ends(with_pandas(json_file))
    /\ UNCHANGED <<flatten_strategy, json_file>>

convert_with_array_explosion ==
    \E array_field \in ArrayFields :
        /\ call' = [method |-> "explosion", array_field |-> array_field]
        /\ Ends(array_explosion(flatten_strategy, json_file, array_field))
        /\ UNCHANGED <<flatten_strategy, json_file>>

Next ==
    \/ convert_with_custom_flattening
    \/ convert_with_pandas
    \/ convert_with_array_explosion

Spec == Init /\ [][Next]_vars

\* ------------------------------------------------------------ traversal
\* Every pair flatten_dict appends to an items list, at any depth, in the
\* order of the appends and before dict(items) merges equal keys.
RECURSIVE emitted_items(_, _, _)
emitted_items(strategy, d, parent_key) ==
    concat([i \in 1..Len(d.o) |->
        LET value == d.o[i].v
            new_key == new_key_of(parent_key, d.o[i].k)
        IN IF is_dict(value) THEN emitted_items(strategy, value, new_key)
           ELSE IF is_list(value) /\ strategy = "separate_columns" THEN
               concat([j \in 1..Len(value.a) |->
                   IF is_dict(value.a[j])
                   THEN emitted_items(strategy, value.a[j],
                                      indexed_key(new_key, j - 1))
                   ELSE <<Pair(indexed_key(new_key, j - 1), value.a[j])>>])
           ELSE items_for(strategy, parent_key, d.o[i].k, value)])

\* Every (parent_key, key, value) a turn of the loop over data.items() sees,
\* in flatten_dict(d, parent_key) and the calls it makes.
RECURSIVE visited(_, _, _)
visited(strategy, d, parent_key) ==
    UNION {
        LET value == d.o[i].v
            new_key == new_key_of(parent_key, d.o[i].k)
        IN {[parent_key |-> parent_key, key |-> d.o[i].k, value |-> value]}
           \cup (IF is_dict(value) THEN visited(strategy, value, new_key)
                 ELSE IF is_list(value) /\ strategy = "separate_columns" THEN
                     UNION {IF is_dict(value.a[j])
                            THEN visited(strategy, value.a[j],
                                         indexed_key(new_key, j - 1))
                            ELSE {} : j \in 1..Len(value.a)}
                 ELSE {})
        : i \in 1..Len(d.o)}

\* ------------------------------------------------------------ claims
Custom == call.method = "custom"
Explosion == call.method = "explosion"
Done == Custom \/ Explosion
is_scalar(v) == v.t \in {"null", "bool", "int", "str"}

\* The last call exploded the one record of the input on its array_field.
ExplodedRecord ==
    /\ Explosion
    /\ is_dict(json_file)
    /\ call.array_field # <<>>
    /\ dict_has(json_file.o, call.array_field)
    /\ is_list(dict_get(json_file.o, call.array_field))

ExplodedItems == dict_get(json_file.o, call.array_field).a

\* C1: every value of every row a call accumulates (flattened records and
\* wrapped elements alike) is a scalar or a Text, never a dict or a list.
C1_RowValuesAreFlat ==
    \A i \in 1..Len(rows) : \A j \in 1..Len(rows[i]) :
        ~is_dict(rows[i][j].v) /\ ~is_list(rows[i][j].v)

\* C2: for a non-empty sequence of rows the header written is the strictly
\* increasing (sorted, duplicate-free) sequence of exactly the keys of all
\* rows, the same for the rows in reverse order, and every line written has
\* one field per header key: the row's value where the row has the key, the
\* empty string where it has not.
C2_HeaderAndLines ==
    (csv_file.state = "written" /\ rows # <<>>) =>
        LET header == csv_file.fieldnames
            reversed == [i \in 1..Len(rows) |-> rows[Len(rows) + 1 - i]]
        IN /\ {header[j] : j \in 1..Len(header)}
                 = UNION {dict_keys(rows[i]) : i \in 1..Len(rows)}
           /\ \A j \in 1..Len(header) : \A k \in 1..Len(header) :
                  j < k => str_lt(header[j], header[k])
           /\ written_file(reversed).fieldnames = header
           /\ Len(csv_file.lines) = Len(rows)
           /\ \A i \in 1..Len(rows) :
                  /\ Len(csv_file.lines[i]) = Len(header)
                  /\ \A j \in 1..Len(header) :
                         csv_file.lines[i][j] =
                             IF header[j] \in dict_keys(rows[i])
                             THEN dict_get(rows[i], header[j])
                             ELSE Str(<<>>)

\* C2 witness: two rows with different keys were written under a header of
\* two or more columns, one line padded with the empty string.
C2_Witness ==
    /\ csv_file.state = "written"
    /\ Len(rows) = 2
    /\ dict_keys(rows[1]) # dict_keys(rows[2])
    /\ Len(csv_file.fieldnames) >= 2
    /\ \E j \in 1..Len(csv_file.fieldnames) :
           /\ csv_file.fieldnames[j] \notin dict_keys(rows[1])
           /\ csv_file.lines[1][j] = Str(<<>>)

\* C3: a call on an object or an array that accumulated no row (and did not
\* end in another exception first) fails with the no-data error and writes
\* no file, on either path.
C3_EmptyRowsNeverWritten ==
    (/\ Done
     /\ is_dict(json_file) \/ is_list(json_file)
     /\ rows = <<>>
     /\ raised \notin {TypeError, AttributeError})
        => (raised = NoData /\ csv_file.state = "absent")

\* C4: exploding a record on an array of K scalars hands K records to
\* flatten_dict, in array order, the i-th mapping the field to the i-th
\* element and every other key to its original value; K rows result.
C4_ScalarExplosion ==
    (ExplodedRecord /\ \A i \in 1..Len(ExplodedItems) : is_scalar(ExplodedItems[i]))
        => /\ raised = ""
           /\ Len(flatten_args) = Len(ExplodedItems)
           /\ Len(rows) = Len(ExplodedItems)
           /\ \A i \in 1..Len(ExplodedItems) :
                  /\ is_dict(flatten_args[i])
                  /\ AsMap(flatten_args[i].o) =
                         [k \in dict_keys(json_file.o) |->
                             IF k = call.array_field THEN ExplodedItems[i]
                             ELSE dict_get(json_file.o, k)]

\* C4 witness: a record with a second key was exploded on two scalars.
C4_Witness ==
    /\ ExplodedRecord
    /\ Len(json_file.o) = 2
    /\ Len(ExplodedItems) = 2
    /\ is_scalar(ExplodedItems[1]) /\ is_scalar(ExplodedItems[2])
    /\ ExplodedItems[1] # ExplodedItems[2]
    /\ Len(flatten_args) = 2

\* C5: exploding a record that lacks the field, or holds a value that is no
\* list under it, hands exactly the record itself to flatten_dict, and the
\* rows are those of the plain conversion of the same input.
C5_NoExplosion ==
    (Explosion /\ is_dict(json_file) /\ ~ExplodedRecord)
        => /\ raised = ""
           /\ flatten_args = <<json_file>>
           /\ rows = custom_flattening(flatten_strategy, json_file).rows
           /\ Len(rows) = 1

\* C5 witness: the field was given and the record holds an object, a scalar
\* or nothing under it.
C5_Witness ==
    /\ Explosion /\ is_dict(json_file) /\ call.array_field = key_a
    /\ \/ ~dict_has(json_file.o, key_a) /\ json_file.o # <<>>
       \/ /\ dict_has(json_file.o, key_a)
          /\ dict_get(json_file.o, key_a) = Obj(<<Pair(key_b, Num(2))>>)
    /\ Len(rows) = 1

\* C6: whatever the path, a top-level array with an element that is no
\* object is converted without an exception and the element becomes the row
\* {"value": element}.
C6_NonObjectsWrapped ==
    (Done /\ is_list(json_file)) =>
        \A i \in 1..Len(json_file.a) :
            ~is_dict(json_file.a[i]) =>
                /\ raised = ""
                /\ \E j \in 1..Len(rows) :
                       rows[j] = <<Pair(value_key, json_file.a[i])>>

\* C7: under dot_notation the row holds, for a key whose value is an array,
\* the ', '-joined text when every element is a scalar (null, boolean,
\* number or text) and the JSON text otherwise.
C7_JoinedIffAllScalars ==
    (Custom /\ is_dict(json_file) /\ flatten_strategy = "dot_notation") =>
        \A i \in 1..Len(json_file.o) :
            LET key == json_file.o[i].k
                value == json_file.o[i].v
            IN is_list(value) =>
                 /\ dict_has(rows[1], key)
                 /\ dict_get(rows[1], key) =
                        IF \A j \in 1..Len(value.a) : is_scalar(value.a[j])
                        THEN joined_text(value)
                        ELSE Str(json_dumps(value))

\* The last call flattened the one record of the input on the plain path.
FlattenedRecord == Custom /\ is_dict(json_file)

is_empty_container(v) == v = Obj(<<>>) \/ v = Arr(<<>>)

\* C8 as stated: under every strategy the row has no key for the path of a
\* key whose value is an empty object or an empty array.  (The claim adds
\* that no key is prefixed by the path; this is the part it implies.)
C8_EmptyContainersDropped ==
    FlattenedRecord =>
        \A i \in 1..Len(json_file.o) :
            is_empty_container(json_file.o[i].v)
                => ~dict_has(rows[1], json_file.o[i].k)

\* What a turn of the loop emits for an empty container at new_key.
EmptyContainerItems(strategy, new_key, value) ==
    IF value = Obj(<<>>) \/ strategy = "separate_columns" THEN <<>>
    ELSE IF strategy = "dot_notation" THEN <<Pair(new_key, Str(<<>>))>>
    ELSE <<Pair(new_key, Str(<<"[", "]">>))>>

\* C8 amended: at any depth a key whose value is an empty object emits no
\* entry under any strategy; a key whose value is an empty array emits no
\* entry under separate_columns only, the entry (path, '') under
\* dot_notation and the entry (path, '[]') under json_string.  For a
\* top-level key that no other entry of the record flattens to, the row
\* holds exactly that.
C8_EmptyObjectDroppedEmptyArrayByStrategy ==
    FlattenedRecord =>
        /\ \A t \in visited(flatten_strategy, json_file, <<>>) :
               is_empty_container(t.value) =>
                   items_for(flatten_strategy, t.parent_key, t.key, t.value)
                     = EmptyContainerItems(flatten_strategy,
                                           new_key_of(t.parent_key, t.key), t.value)
        /\ \A i \in 1..Len(json_file.o) :
               LET key == json_file.o[i].k
                   value == json_file.o[i].v
                   others == concat([j \in 1..Len(json_file.o) |->
                                 IF j = i THEN <<>>
                                 ELSE items_for(flatten_strategy, <<>>,
                                                json_file.o[j].k, json_file.o[j].v)])
                   expected == EmptyContainerItems(flatten_strategy, key, value)
               IN (is_empty_container(value) /\ ~dict_has(others, key)) =>
                      IF expected = <<>> THEN ~dict_has(rows[1], key)
                      ELSE /\ dict_has(rows[1], key)
                           /\ dict_get(rows[1], key) = expected[1].v

\* C8 witness: an empty array next to another key was flattened under
\* json_string and the row holds '[]' for it.
C8_Witness ==
    /\ FlattenedRecord
    /\ flatten_strategy = "json_string"
    /\ Len(json_file.o) = 2
    /\ dict_has(json_file.o, key_a)
    /\ dict_get(json_file.o, key_a) = Arr(<<>>)
    /\ dict_has(rows[1], key_a)
    /\ dict_get(rows[1], key_a) = Str(<<"[", "]">>)

\* C9: no two pairs flatten_dict emits for a record have the same key, so
\* dict(items) overwrites nothing.
C9_NoKeyCollision ==
    FlattenedRecord =>
        LET emitted == emitted_items(flatten_strategy, json_file, <<>>)
        IN /\ \A i \in 1..Len(emitted) : \A j \in 1..Len(emitted) :
                  i # j => emitted[i].k # emitted[j].k
           /\ Len(rows[1]) = Len(emitted)

\* C10: exploding a record on an array hands one record per element to
\* flatten_dict; for an element that is an object, that record maps the keys
\* of the element to the element's values and every other key of the input
\* record except the array field to its original value, and holds nothing
\* else; the input record is as it was loaded.
C10_ObjectExplosion ==
    ExplodedRecord =>
        /\ Len(flatten_args) = Len(ExplodedItems)
        /\ data = Arr(<<json_file>>)
        /\ \A i \in 1..Len(ExplodedItems) :
               LET e == ExplodedItems[i]
                   base == dict_keys(json_file.o) \ {call.array_field}
               IN is_dict(e) =>
                    /\ is_dict(flatten_args[i])
                    /\ AsMap(flatten_args[i].o) =
                           [k \in base \cup dict_keys(e.o) |->
                               IF k \in dict_keys(e.o) THEN dict_get(e.o, k)
                               ELSE dict_get(json_file.o, k)]

\* C10 witness: a record with keys "a" and "b" was exploded on two objects,
\* the first overriding "b" and leaving no "a", the second bringing an "a".
C10_Witness ==
    /\ ExplodedRecord
    /\ dict_has(json_file.o, key_b)
    /\ Len(ExplodedItems) = 2
    /\ ExplodedItems[1] = Obj(<<Pair(key_b, Num(2))>>)
    /\ ExplodedItems[2] = Obj(<<Pair(key_a, Num(3)), Pair(key_c, Num(4))>>)
    /\ Len(flatten_args) = 2
    /\ ~dict_has(flatten_args[1].o, key_a)
    /\ dict_get(flatten_args[1].o, key_b) = Num(2)
    /\ dict_get(flatten_args[2].o, key_a) = Num(3)
    /\ data = Arr(<<json_file>>)

====
